---- MODULE Spec2Model ----
(***************************************************************************)
(* Model of index.py, the Pokemon list comparison tool.                    *)
(*                                                                         *)
(* A Python str is a sequence of code points (integers), a bytes object a  *)
(* sequence of byte values.  An Optional value is a sequence of length 0   *)
(* (None) or 1.  The POST handler compare_lists is a process whose         *)
(* position is pc: it suspends at the two awaited get_content calls, then  *)
(* validates, parses, scans the checklist one loop iteration at a time,    *)
(* and sorts and renders the result.                                       *)
(***************************************************************************)
EXTENDS Integers, Sequences, FiniteSets

\* ---------------------------------------------------------------- bounds
\* longest owned list (in lines) a request of Spec carries
MaxOwnedLines == 2
\* longest checklist (in lines) a request of Spec carries
MaxCheckLines == 3
\* longest text (in characters) SpecParse hands to parse_pokemon_list
MaxLen == 4

\* ---------------------------------------------------------------- values
None == << >>
Some(x) == << x >>

\* Python truthiness of an Optional[str]: None and "" are falsy.
Truthy(opt) == opt # None /\ opt[1] # << >>

\* `text or ""`
OrEmpty(text) == IF Truthy(text) THEN text[1] ELSE << >>

\* Characters str.isspace() holds of (those below U+0100).
Whitespace == {9, 10, 11, 12, 13, 28, 29, 30, 31, 32, 133, 160}

\* Characters str.splitlines() breaks a line at (those below U+0100).
LineBreaks == {10, 11, 12, 13, 28, 29, 30, 133}

\* ------------------------------------------------------------ str methods
\* str.lower() on one code point: A-Z map to a-z, the rest is unchanged.
LowerChar(c) == IF c \in 65..90 THEN c + 32 ELSE c

\* str.lower()
lower(s) == [i \in 1..Len(s) |-> LowerChar(s[i])]

RECURSIVE LStrip(_)
LStrip(s) ==
  IF s # << >> /\ Head(s) \in Whitespace THEN LStrip(Tail(s)) ELSE s

RECURSIVE RStrip(_)
RStrip(s) ==
  IF s # << >> /\ s[Len(s)] \in Whitespace
  THEN RStrip(SubSeq(s, 1, Len(s) - 1))
  ELSE s

\* A strip() that trims the left end only.
StripLeftOnly(s) == LStrip(s)

\* str.strip()
strip(s) == RStrip(LStrip(s))

\* str.splitlines(): a line ends at every line break, "\r\n" is one break,
\* and no empty line follows a final break.
RECURSIVE SplitFrom(_, _, _, _)
SplitFrom(s, i, cur, acc) ==
  IF i > Len(s)
  THEN IF cur # << >> THEN Append(acc, cur) ELSE acc
  ELSE IF s[i] \in LineBreaks
       THEN IF s[i] = 13 /\ i < Len(s) /\ s[i + 1] = 10
            THEN SplitFrom(s, i + 2, << >>, Append(acc, cur))
            ELSE SplitFrom(s, i + 1, << >>, Append(acc, cur))
       ELSE SplitFrom(s, i + 1, Append(cur, s[i]), acc)

splitlines(s) == SplitFrom(s, 1, << >>, << >>)

\* str < str: Python compares strings code point by code point.
RECURSIVE str_lt(_, _)
str_lt(a, b) ==
  IF b = << >> THEN FALSE
  ELSE IF a = << >> THEN TRUE
  ELSE IF Head(a) # Head(b) THEN Head(a) < Head(b)
  ELSE str_lt(Tail(a), Tail(b))

\* bytes.decode("utf-8", errors="ignore") on the bytes the requests carry:
\* an ASCII byte is its own code point, and 0xFF, which no UTF-8 sequence
\* contains, is dropped.
RECURSIVE decode(_)
decode(b) ==
  IF b = << >> THEN << >>
  ELSE IF Head(b) < 128 THEN << Head(b) >> \o decode(Tail(b))
  ELSE decode(Tail(b))

\* ------------------------------------------------------------- core logic
\* The comprehension without its `if line.strip()` filter.
StripKeepBlank(lines) == [i \in 1..Len(lines) |-> strip(lines[i])]

\* [line.strip() for line in lines if line.strip()]
RECURSIVE StripNonBlank(_)
StripNonBlank(lines) ==
  IF lines = << >> THEN << >>
  ELSE IF strip(Head(lines)) # << >>
       THEN << strip(Head(lines)) >> \o StripNonBlank(Tail(lines))
       ELSE StripNonBlank(Tail(lines))

\* parse_pokemon_list(text), text an Optional[str]
parse_pokemon_list(text) ==
  IF ~Truthy(text) THEN << >> ELSE StripNonBlank(splitlines(text[1]))

\* `file and file.filename`
UploadPresent(file) == file # None /\ file[1].filename # ""

\* A get_content that prefers the pasted text to the upload.
GetContentTextFirst(file, text, readFails) ==
  IF Truthy(text) THEN text[1]
  ELSE IF UploadPresent(file) /\ ~readFails THEN decode(file[1].data)
  ELSE << >>

\* A get_content whose except branch sets content = "".
GetContentEmptyOnFail(file, text, readFails) ==
  IF UploadPresent(file)
  THEN IF readFails THEN << >> ELSE decode(file[1].data)
  ELSE OrEmpty(text)

\* get_content(file, text): readFails is whether `await file.read()` raises.
get_content(file, text, readFails) ==
  IF UploadPresent(file)
  THEN IF readFails THEN OrEmpty(text) ELSE decode(file[1].data)
  ELSE OrEmpty(text)

\* `not owned_content and not checklist_content`
ValidationBothEmpty(oc, cc) == oc = << >> /\ cc = << >>

\* `not owned_content.strip() or not checklist_content.strip()`
ValidationStripped(oc, cc) == strip(oc) = << >> \/ strip(cc) = << >>

\* `not owned_content or not checklist_content`
ValidationFails(oc, cc) == oc = << >> \/ cc = << >>

\* set(owned_names), the names as written
LowerSetRaw(names) == {names[i] : i \in 1..Len(names)}

\* {name.lower() for name in owned_names}
LowerSet(names) == {lower(names[i]) : i \in 1..Len(names)}

\* The test without `name_lower not in seen_missing_lower`.
IsNewMissingNoSeen(name, ownedLower, seenLower) ==
  lower(name) \notin ownedLower

\* The test of the scan loop's body.
IsNewMissing(name, ownedLower, seenLower) ==
  lower(name) \notin ownedLower /\ lower(name) \notin seenLower

\* missing_pokemon.append(name_lower)
EmitLowered(missing, name) == Append(missing, lower(name))

\* missing_pokemon.append(name)
Emit(missing, name) == Append(missing, name)

\* A stable insertion by the names themselves, with no key.
RECURSIVE InsertPlain(_, _)
InsertPlain(sorted, x) ==
  IF sorted = << >> THEN << x >>
  ELSE IF str_lt(x, Head(sorted))
       THEN << x >> \o sorted
       ELSE << Head(sorted) >> \o InsertPlain(Tail(sorted), x)

RECURSIVE SortPlainFrom(_, _)
SortPlainFrom(rest, sorted) ==
  IF rest = << >> THEN sorted
  ELSE SortPlainFrom(Tail(rest), InsertPlain(sorted, Head(rest)))

\* missing_pokemon.sort()
SortPlain(names) == SortPlainFrom(names, << >>)

\* Insert x behind every element whose key is not greater (a stable sort).
RECURSIVE InsertByLower(_, _)
InsertByLower(sorted, x) ==
  IF sorted = << >> THEN << x >>
  ELSE IF str_lt(lower(x), lower(Head(sorted)))
       THEN << x >> \o sorted
       ELSE << Head(sorted) >> \o InsertByLower(Tail(sorted), x)

RECURSIVE SortFrom(_, _)
SortFrom(rest, sorted) ==
  IF rest = << >> THEN sorted
  ELSE SortFrom(Tail(rest), InsertByLower(sorted, Head(rest)))

\* missing_pokemon.sort(key=str.lower)
sort_by_lower(names) == SortFrom(names, << >>)

\* The text of the result block: which message, the count, the names.
Render(missing) ==
  IF Len(missing) > 0
  THEN [kind |-> "missing", count |-> Len(missing), names |-> missing]
  ELSE [kind |-> "congrats", count |-> 0, names |-> << >>]

ErrorBlock == [kind |-> "error", count |-> 0, names |-> << >>]
NoBlock == [kind |-> "none", count |-> 0, names |-> << >>]

\* ------------------------------------------------------------------ state
VARIABLES
  pc,                    \* position of the compare_lists handler
  owned_file, owned_text, checklist_file, checklist_text,   \* the form
  owned_content, checklist_content,
  owned_names, checklist_names,
  owned_names_lower_set,
  missing_pokemon, seen_missing_lower,
  idx,                   \* position of `for name in checklist_names`
  result_block,
  error_log,             \* the inputs logger.error reported a failed read of
  p_pc, p_text, p_names  \* a direct call of parse_pokemon_list

vars == << pc, owned_file, owned_text, checklist_file, checklist_text,
           owned_content, checklist_content, owned_names, checklist_names,
           owned_names_lower_set, missing_pokemon, seen_missing_lower,
           idx, result_block, error_log, p_pc, p_text, p_names >>

form == << owned_file, owned_text, checklist_file, checklist_text >>
parseCall == << p_pc, p_text, p_names >>
locals == << owned_names, checklist_names, owned_names_lower_set,
             missing_pokemon, seen_missing_lower, idx >>

\* ----------------------------------------------------------------- inputs
\* Lines a checklist is made of: "a", "A", "Ab", "B", " "; and lines an
\* owned list is made of: "A", "b", " ".
LinePool == { <<97>>, <<65>>, <<65, 98>>, <<66>>, <<32>> }
OwnedLinePool == { <<65>>, <<98>>, <<32>> }

RECURSIVE JoinLines(_)
JoinLines(lines) ==
  IF lines = << >> THEN << >>
  ELSE IF Len(lines) = 1 THEN Head(lines)
  ELSE Head(lines) \o <<10>> \o JoinLines(Tail(lines))

\* Every text of at most n lines of pool, joined by "\n".
Contents(pool, n) ==
  { JoinLines(l) : l \in UNION { [1..k -> pool] : k \in 0..n } }

Upload(name, data) == Some([filename |-> name, data |-> data])

\* One input of the form given either as pasted text or as an upload.
OneChannel(C) ==
  { << None, None >> }
    \cup { << None, Some(c) >> : c \in C }
    \cup { << Upload("list.txt", c), None >> : c \in C }

\* Uploaded bytes and pasted texts of a form that fills both fields of an
\* input: "", 0xFF, "a", "B\na", 0xFF "A"; and "", "a", " ", "B".
UploadData == { << >>, <<255>>, <<97>>, <<66, 10, 97>>, <<255, 65>> }
PastedTexts == { << >>, <<97>>, <<32>>, <<66>> }

BothChannels ==
  ({None} \cup { Upload(n, d) : n \in {"", "list.txt"}, d \in UploadData })
    \X ({None} \cup { Some(t) : t \in PastedTexts })

\* Every str of at most MaxLen characters of "\t", "\n", "\r", " ", "A", "a".
Alphabet == {9, 10, 13, 32, 65, 97}
Strings == UNION { [1..n -> Alphabet] : n \in 0..MaxLen }

\* ------------------------------------------------------------------- Init
HandlerStart ==
  /\ pc = "get_owned"
  /\ owned_content = << >>
  /\ checklist_content = << >>
  /\ owned_names = << >>
  /\ checklist_names = << >>
  /\ owned_names_lower_set = {}
  /\ missing_pokemon = << >>
  /\ seen_missing_lower = {}
  /\ idx = 0
  /\ result_block = NoBlock
  /\ error_log = {}

NoParseCall ==
  /\ p_pc = "off"
  /\ p_text = None
  /\ p_names = << >>

Init ==
  /\ \E o \in OneChannel(Contents(OwnedLinePool, MaxOwnedLines)) :
       owned_file = o[1] /\ owned_text = o[2]
  /\ \E c \in OneChannel(Contents(LinePool, MaxCheckLines)) :
       checklist_file = c[1] /\ checklist_text = c[2]
  /\ HandlerStart
  /\ NoParseCall

InitUpload ==
  /\ \E o \in BothChannels : owned_file = o[1] /\ owned_text = o[2]
  /\ \E c \in BothChannels : checklist_file = c[1] /\ checklist_text = c[2]
  /\ HandlerStart
  /\ NoParseCall

InitParse ==
  /\ owned_file = None /\ owned_text = None
  /\ checklist_file = None /\ checklist_text = None
  /\ HandlerStart
  /\ p_pc = "call"
  /\ p_text \in {None} \cup { Some(s) : s \in Strings }
  /\ p_names = << >>

\* ---------------------------------------------------------------- actions
\* owned_content = await get_content(owned_file, owned_text)
GetOwnedContent ==
  /\ pc = "get_owned"
  /\ \E readFails \in BOOLEAN :
       /\ owned_content' = get_content(owned_file, owned_text, readFails)
       /\ error_log' = IF UploadPresent(owned_file) /\ readFails
                       THEN error_log \cup {"owned"}
                       ELSE error_log
  /\ pc' = "get_checklist"
  /\ UNCHANGED << form, checklist_content, locals, result_block, parseCall >>

\* checklist_content = await get_content(checklist_file, checklist_text)
GetChecklistContent ==
  /\ pc = "get_checklist"
  /\ \E readFails \in BOOLEAN :
       /\ checklist_content' =
            get_content(checklist_file, checklist_text, readFails)
       /\ error_log' = IF UploadPresent(checklist_file) /\ readFails
                       THEN error_log \cup {"checklist"}
                       ELSE error_log
  /\ pc' = "validate"
  /\ UNCHANGED << form, owned_content, locals, result_block, parseCall >>

\* The validation: the error block is the response.
RejectEmpty ==
  /\ pc = "validate"
  /\ ValidationFails(owned_content, checklist_content)
  /\ result_block' = ErrorBlock
  /\ pc' = "done"
  /\ UNCHANGED << form, owned_content, checklist_content, locals, error_log,
                  parseCall >>

\* Parse the lists, build the lookup set, start the scan.
ParseLists ==
  /\ pc = "validate"
  /\ ~ValidationFails(owned_content, checklist_content)
  /\ owned_names' = parse_pokemon_list(Some(owned_content))
  /\ checklist_names' = parse_pokemon_list(Some(checklist_content))
  /\ owned_names_lower_set' = LowerSet(owned_names')
  /\ missing_pokemon' = << >>
  /\ seen_missing_lower' = {}
  /\ idx' = 1
  /\ pc' = "scan"
  /\ UNCHANGED << form, owned_content, checklist_content, result_block,
                  error_log, parseCall >>

\* One iteration of `for name in checklist_names`.
ScanStep ==
  /\ pc = "scan"
  /\ idx <= Len(checklist_names)
  /\ LET name == checklist_names[idx] IN
       IF IsNewMissing(name, owned_names_lower_set, seen_missing_lower)
       THEN /\ missing_pokemon' = Emit(missing_pokemon, name)
            /\ seen_missing_lower' = seen_missing_lower \cup {lower(name)}
       ELSE UNCHANGED << missing_pokemon, seen_missing_lower >>
  /\ idx' = idx + 1
  /\ UNCHANGED << pc, form, owned_content, checklist_content, owned_names,
                  checklist_names, owned_names_lower_set, result_block,
                  error_log, parseCall >>

\* After the loop: sort, count, build the output, respond.
SortAndRender ==
  /\ pc = "scan"
  /\ idx > Len(checklist_names)
  /\ missing_pokemon' = sort_by_lower(missing_pokemon)
  /\ result_block' = Render(missing_pokemon')
  /\ pc' = "done"
  /\ UNCHANGED << form, owned_content, checklist_content, owned_names,
                  checklist_names, owned_names_lower_set, seen_missing_lower,
                  idx, error_log, parseCall >>

\* names = parse_pokemon_list(text)
ParseCall ==
  /\ p_pc = "call"
  /\ p_names' = parse_pokemon_list(p_text)
  /\ p_pc' = "returned"
  /\ UNCHANGED << pc, form, owned_content, checklist_content, locals,
                  result_block, error_log, p_text >>

Next ==
  \/ GetOwnedContent
  \/ GetChecklistContent
  \/ RejectEmpty
  \/ ParseLists
  \/ ScanStep
  \/ SortAndRender

NextParse == ParseCall

\* A request whose inputs each come from one channel.
Spec == Init /\ [][Next]_vars
\* A request that may fill the upload and the text field of an input.
SpecUpload == InitUpload /\ [][Next]_vars
\* A call of parse_pokemon_list on any short string.
SpecParse == InitParse /\ [][NextParse]_vars

\* ----------------------------------------------------------------- claims
\* The handler has responded with a comparison, not the validation error.
Compared == pc = "done" /\ result_block.kind # "error"

\* The missing list exists: the scan is under way or over.
Scanned == pc = "scan" \/ Compared

\* The missing list as the response shows it.
Shown == result_block.names

SameLower(a, b) == lower(a) = lower(b)

\* The lowercase forms of the names parsed from the owned content.
OwnedLower == { lower(owned_names[j]) : j \in 1..Len(owned_names) }

\* Lexicographic order of two strings, by the first position they differ at.
LexBefore(a, b) ==
  \E k \in 1..Len(b) :
    /\ k <= Len(a) + 1
    /\ \A h \in 1..(k - 1) : a[h] = b[h]
    /\ k = Len(a) + 1 \/ a[k] < b[k]

\* Position of the first checklist name with the lowercase form of name.
FirstOccurrence(name) ==
  CHOOSE f \in 1..Len(checklist_names) :
    /\ SameLower(checklist_names[f], name)
    /\ \A g \in 1..(f - 1) : ~SameLower(checklist_names[g], name)

\* C1: once validation has passed, no name of the missing list (during the
\* scan, after the sort and in the response) has the lowercase form of a name
\* parsed from the owned content.
C1_MissingNotOwned ==
  Scanned =>
    /\ \A i \in 1..Len(missing_pokemon), j \in 1..Len(owned_names) :
         ~SameLower(missing_pokemon[i], owned_names[j])
    /\ \A i \in 1..Len(Shown), j \in 1..Len(owned_names) :
         ~SameLower(Shown[i], owned_names[j])

\* C1 witness: a response listing missing names while an owned name covers a
\* checklist name written in another casing.
C1_Witness ==
  /\ Compared
  /\ result_block.kind = "missing"
  /\ \E i \in 1..Len(checklist_names), j \in 1..Len(owned_names) :
       /\ checklist_names[i] # owned_names[j]
       /\ SameLower(checklist_names[i], owned_names[j])

\* C2: at every point of the scan and in the final result, no two entries of
\* the missing list have the same lowercase form.
C2_NoDuplicateLower ==
  Scanned =>
    /\ \A i, j \in 1..Len(missing_pokemon) :
         SameLower(missing_pokemon[i], missing_pokemon[j]) => i = j
    /\ \A i, j \in 1..Len(Shown) : SameLower(Shown[i], Shown[j]) => i = j

\* C2 witness: in the middle of the scan, after the loop has passed two
\* checklist names of one lowercase form that no owned name covers.
C2_Witness ==
  /\ pc = "scan"
  /\ idx <= Len(checklist_names)
  /\ \E i, j \in 1..(idx - 1) :
       /\ i < j
       /\ checklist_names[i] # checklist_names[j]
       /\ SameLower(checklist_names[i], checklist_names[j])
       /\ lower(checklist_names[i]) \notin OwnedLower

\* C3: in the response, every checklist name whose lowercase form no owned
\* name has is represented by exactly one entry of the missing list, and that
\* entry is the first checklist name of that lowercase form, as written; the
\* list is empty exactly when the owned names cover every checklist name;
\* with no owned names it has one entry for each lowercase form of the
\* checklist.
C3_FirstOccurrenceOnce ==
  Compared =>
    /\ \A i \in 1..Len(checklist_names) :
         lower(checklist_names[i]) \notin OwnedLower =>
           \E j \in 1..Len(Shown) :
             /\ SameLower(Shown[j], checklist_names[i])
             /\ \A k \in 1..Len(Shown) :
                  SameLower(Shown[k], checklist_names[i]) => k = j
             /\ Shown[j] = checklist_names[FirstOccurrence(checklist_names[i])]
    /\ Shown = << >> <=>
         \A i \in 1..Len(checklist_names) :
           lower(checklist_names[i]) \in OwnedLower
    /\ owned_names = << >> =>
         Len(Shown) =
           Cardinality({ lower(checklist_names[i]) :
                           i \in 1..Len(checklist_names) })
    /\ result_block.count = Len(Shown)

\* C3 witness: a response whose checklist repeats an uncovered name in
\* another casing after its first occurrence, next to a covered name.
C3_Witness ==
  /\ Compared
  /\ Len(Shown) = 1
  /\ \E i, j, k \in 1..Len(checklist_names) :
       /\ i < j
       /\ checklist_names[i] # checklist_names[j]
       /\ SameLower(checklist_names[i], checklist_names[j])
       /\ Shown[1] = checklist_names[i]
       /\ lower(checklist_names[k]) \in OwnedLower

\* C4: in the response, the lowercase form of every entry of the missing list
\* is strictly less than that of the entry after it.
C4_SortedByLower ==
  Compared =>
    \A k \in 1..(Len(Shown) - 1) :
      LexBefore(lower(Shown[k]), lower(Shown[k + 1]))

\* C4 witness: a response that lists two names in the order opposite to the
\* checklist's, which their code points alone would not give.
C4_Witness ==
  /\ Compared
  /\ Len(Shown) >= 2
  /\ \E i, j \in 1..Len(checklist_names) :
       /\ i < j
       /\ Shown[1] = checklist_names[j]
       /\ Shown[2] = checklist_names[i]
       /\ LexBefore(Shown[2], Shown[1])

\* C5: when the owned content or the checklist content is empty, the response
\* is the validation error: no missing list was built and no success message
\* is shown.
C5_EmptyContentIsError ==
  (pc = "done" /\ (owned_content = << >> \/ checklist_content = << >>)) =>
    /\ result_block = ErrorBlock
    /\ missing_pokemon = << >>
    /\ idx = 0

\* C5 witness: owned = "" pasted and a checklist with content, answered with
\* the validation error.
C5_Witness ==
  /\ pc = "done"
  /\ owned_text = Some(<< >>)
  /\ owned_content = << >>
  /\ checklist_content # << >>
  /\ result_block.kind = "error"

\* C6, as claimed: the validation error is reported only when both contents
\* are empty.
C6_ErrorOnlyIfBothEmpty ==
  (pc = "done" /\ result_block.kind = "error") =>
    (owned_content = << >> /\ checklist_content = << >>)

\* C6, amended: the validation error is reported only when at least one of
\* the two contents is empty, and the response is that error or one of the
\* two comparison messages.
C6_ErrorOnlyIfSomeEmpty ==
  pc = "done" =>
    /\ result_block.kind \in {"error", "missing", "congrats"}
    /\ result_block.kind = "error" =>
         (owned_content = << >> \/ checklist_content = << >>)

\* C6 witness: the validation error with exactly one empty content.
C6_Witness ==
  /\ pc = "done"
  /\ result_block.kind = "error"
  /\ (owned_content = << >>) # (checklist_content = << >>)

\* Every character of s is whitespace, so s has no name.
AllBlank(s) == \A i \in 1..Len(s) : s[i] \in Whitespace

\* C7: when both contents are non-empty strings the response is never the
\* validation error; an all-whitespace checklist gives the success message
\* with count 0 and no names, and an all-whitespace owned content gives one
\* missing name for each lowercase form of the checklist.
C7_BlankContentIsNoError ==
  (pc = "done" /\ owned_content # << >> /\ checklist_content # << >>) =>
    /\ result_block.kind # "error"
    /\ AllBlank(checklist_content) =>
         result_block = [kind |-> "congrats", count |-> 0, names |-> << >>]
    /\ AllBlank(owned_content) =>
         /\ \A i \in 1..Len(checklist_names) :
              \E j \in 1..Len(Shown) : SameLower(Shown[j], checklist_names[i])
         /\ result_block.count =
              Cardinality({ lower(checklist_names[i]) :
                              i \in 1..Len(checklist_names) })

\* C7 witness: a whitespace-only checklist answered with the success message,
\* and a whitespace-only owned content answered with a missing list.
C7_Witness ==
  /\ pc = "done"
  /\ \/ /\ checklist_content # << >> /\ AllBlank(checklist_content)
        /\ result_block.kind = "congrats"
        /\ owned_names # << >>
     \/ /\ owned_content # << >> /\ AllBlank(owned_content)
        /\ result_block.kind = "missing"
        /\ Len(checklist_names) > result_block.count

\* The input has been resolved by get_content.
OwnedResolved == pc \notin {"get_owned"}
ChecklistResolved == pc \notin {"get_owned", "get_checklist"}

\* C8, as claimed: with an upload and pasted text both present, the resolved
\* content is the upload's decoded content.
C8_UploadAlwaysWins ==
  /\ (OwnedResolved /\ UploadPresent(owned_file) /\ owned_text # None) =>
       owned_content = decode(owned_file[1].data)
  /\ (ChecklistResolved /\ UploadPresent(checklist_file)
        /\ checklist_text # None) =>
       checklist_content = decode(checklist_file[1].data)

\* C8, amended: with an upload and pasted text both present, the resolved
\* content is the upload's decoded content, also when that is empty, unless
\* reading the upload raised.
C8_UploadWinsUnlessReadFails ==
  /\ (OwnedResolved /\ UploadPresent(owned_file) /\ owned_text # None
        /\ "owned" \notin error_log) =>
       owned_content = decode(owned_file[1].data)
  /\ (ChecklistResolved /\ UploadPresent(checklist_file)
        /\ checklist_text # None /\ "checklist" \notin error_log) =>
       checklist_content = decode(checklist_file[1].data)

\* C8 witness: an upload that decodes to the empty string beats a pasted name
\* and the request ends in the validation error.
C8_Witness ==
  /\ pc = "done"
  /\ UploadPresent(checklist_file)
  /\ Truthy(checklist_text)
  /\ "checklist" \notin error_log
  /\ checklist_content = << >>
  /\ owned_content # << >>
  /\ result_block.kind = "error"

\* C10, as claimed: after a failed read of an upload the content of that
\* input is the empty string and the response is the validation error.
C10_FailedReadGivesEmpty ==
  /\ (OwnedResolved /\ "owned" \in error_log) => owned_content = << >>
  /\ (ChecklistResolved /\ "checklist" \in error_log) =>
       checklist_content = << >>
  /\ (pc = "done" /\ error_log # {}) => result_block.kind = "error"

\* C10, amended: after a failed read of an upload the content of that input
\* is the pasted text, and the empty string only when no text was pasted;
\* the validation error follows in that case; bytes that do not decode are
\* dropped, so an upload of such bytes alone gives the empty string.
C10_FailedReadGivesPastedText ==
  /\ (OwnedResolved /\ "owned" \in error_log) =>
       /\ Truthy(owned_text) => owned_content = owned_text[1]
       /\ ~Truthy(owned_text) => owned_content = << >>
  /\ (ChecklistResolved /\ "checklist" \in error_log) =>
       /\ Truthy(checklist_text) => checklist_content = checklist_text[1]
       /\ ~Truthy(checklist_text) => checklist_content = << >>
  /\ (pc = "done" /\ \/ "owned" \in error_log /\ ~Truthy(owned_text)
                     \/ "checklist" \in error_log /\ ~Truthy(checklist_text))
       => result_block.kind = "error"
  /\ (OwnedResolved /\ UploadPresent(owned_file) /\ "owned" \notin error_log
        /\ \A i \in 1..Len(owned_file[1].data) : owned_file[1].data[i] >= 128)
       => owned_content = << >>

\* C10 witness: the read of the owned upload failed, a name was pasted, and
\* the request was compared with the pasted name as the owned content.
C10_Witness ==
  /\ Compared
  /\ "owned" \in error_log
  /\ Truthy(owned_text)
  /\ owned_content = owned_text[1]
  /\ owned_content # decode(owned_file[1].data)

\* The characters of t between positions i and j lie on one line.
SameLine(t, i, j) == \A k \in i..j : t[k] \notin LineBreaks

\* Position i of t belongs to a name: its line has a non-blank character at
\* or before i and one at or after i.
Kept(t, i) ==
  /\ \E j \in 1..i : t[j] \notin Whitespace /\ SameLine(t, j, i)
  /\ \E k \in i..Len(t) : t[k] \notin Whitespace /\ SameLine(t, i, k)

\* The positions of t where a name starts, and where the name at s ends.
NameStarts(t) ==
  { i \in 1..Len(t) : Kept(t, i) /\ (i = 1 \/ ~Kept(t, i - 1)) }
NameEnd(t, s) ==
  CHOOSE e \in s..Len(t) :
    /\ \A k \in s..e : Kept(t, k)
    /\ e = Len(t) \/ ~Kept(t, e + 1)

ParsedText == IF p_text = None THEN << >> ELSE p_text[1]

\* C9: parse_pokemon_list returns, in order, the trimmed non-blank lines of
\* its input with their characters unchanged: the n-th name is the stretch of
\* the text from the n-th name start to its end; no name is empty or
\* whitespace-only; None and "" give the empty sequence.
C9_ParseTrimmedNonBlankLines ==
  p_pc = "returned" =>
    /\ Len(p_names) = Cardinality(NameStarts(ParsedText))
    /\ \A n \in 1..Len(p_names) :
         /\ \E s \in NameStarts(ParsedText) :
              /\ Cardinality({ x \in NameStarts(ParsedText) : x < s }) = n - 1
              /\ p_names[n] = SubSeq(ParsedText, s, NameEnd(ParsedText, s))
         /\ p_names[n] # << >>
         /\ ~AllBlank(p_names[n])
    /\ ~Truthy(p_text) => p_names = << >>

\* C9 witness: a text that starts with whitespace and has an upper-case and a
\* lower-case name on two lines, parsed to those two names.
C9_Witness ==
  /\ p_pc = "returned"
  /\ Truthy(p_text)
  /\ p_text[1][1] \in Whitespace
  /\ p_names = << <<65>>, <<97>> >>


====
